---------------------------- MODULE Spec2Model ----------------------------
(***************************************************************************)
(* Model of src/store.go (the first, pointer-based Store of the file,      *)
(* lines 1-247): an in-memory key/value store with per-entry expiry, an    *)
(* atomic view counter per entry, a recency stack of the last 30 written   *)
(* keys, and a background Cleanup goroutine.                               *)
(*                                                                         *)
(* Granularity.  Every goroutine is a process with a program counter.  A   *)
(* step is: one call of time.Now(), one atomic operation on Item.Views, or *)
(* the acquisition of a lock together with the statements executed under   *)
(* it (those statements touch only state the lock protects); the release   *)
(* of the lock is a step of its own, so the lock is visibly held in        *)
(* between.  Keys are naturals, 0 standing for the empty string "".        *)
(* A *Item is an index into the heap `items`; 0 is the nil pointer.        *)
(***************************************************************************)
EXTENDS Integers, Sequences, FiniteSets, TLC

VARIABLES
    now,          \* the wall clock read by time.Now()
    data,         \* Store.data : key -> *Item (a function on the present keys)
    items,        \* the heap of Item values, indexed by pointer
    lastKeys,     \* Store.lastKeys
    muW,          \* Store.mu : the goroutine holding it for writing, or Free
    muR,          \* Store.mu : the goroutines holding it for reading
    stackMutex,   \* Store.stackMutex : its holder, or Free
    pc,           \* each goroutine's position
    loc,          \* each caller's locals: op, key, value, expires, item, ret; at: the
                  \* time.Now() it last read (or the time of its table read); seen:
                  \* history, live[key] at the table read
    expiredKeys,  \* Cleanup's local expiredKeys
    cleanNow,     \* Cleanup's local now
    ctxDone,      \* ctx.Done() is closed
    tickerOn,     \* cleanTicker has not been stopped
    live,         \* history: key -> the entry a Set wrote that no caller has since overwritten or removed
    okGets,       \* history: key -> number of Gets that returned found=true since the last Set of the key
    todo,         \* harness: calls that may still be started, by each caller, or
                  \* under AnyCaller by all callers together
    prev,         \* harness: the call a caller completed before its current one
    pre,          \* harness: the table and the stack when the current call started
    written       \* harness: the keys passed to Set, in call order

vars == <<now, data, items, lastKeys, muW, muR, stackMutex, pc, loc,
          expiredKeys, cleanNow, ctxDone, tickerOn, live, okGets,
          todo, prev, pre, written>>

harness == <<todo, prev, pre, written>>
cleanup == <<expiredKeys, cleanNow, ctxDone, tickerOn>>

-----------------------------------------------------------------------------
(* Bounds of the model *)

NThreads == 2
MaxKey == 1
MaxTTL == 1
MaxTime == 2
MaxCalls == 3
MaxSeqCalls == 4
MaxStackCalls == 2
MaxGets == 2
MaxExtra == 2
MaxSweepCalls == 3
MaxReads == 1
MaxListCalls == 2
MaxAllCalls == 2
MaxPushes == 3
MaxRetrieveCalls == 3

(* Program constant: the capacity of the recency stack *)
StackCap == 30

Sweeper == 0
Free == -1
AnyCaller == Free
NoItem == 0
EmptyKey == 0

Threads == 1..NThreads
Keys == 0..MaxKey
TTLs == -1..MaxTTL

Callers == DOMAIN pc \ {Sweeper}

-----------------------------------------------------------------------------
(* Go maps *)

MapPut(m, k, v) == [x \in DOMAIN m \cup {k} |-> IF x = k THEN v ELSE m[x]]
MapDel(m, k) == [x \in DOMAIN m \ {k} |-> m[x]]
MapDelAll(m, ks) == [x \in DOMAIN m \ ks |-> m[x]]
EmptyMap == [x \in {} |-> 0]

(* time.Time: 0 is the zero Time (IsZero) *)
ExpiresOf(t, ttl) == IF ttl > 0 THEN t + ttl ELSE 0

Expired_Never(it, t) == FALSE
Expired(it, t) == it.ExpiresAt # 0 /\ t > it.ExpiresAt

NewItem(value, expires) == [Value |-> value, ExpiresAt |-> expires, Views |-> 0]

(* sync.RWMutex and sync.Mutex *)
CanLock == muW = Free /\ muR = {}
CanRLock == muW = Free

NoValue == 0

Locals(o, k) == [op |-> o, key |-> k, value |-> NoValue, expires |-> 0,
                 item |-> NoItem, seen |-> NoItem, ret |-> <<>>, at |-> 0]
IdleLocals == Locals("none", EmptyKey)

-----------------------------------------------------------------------------
(* What one step leaves alone *)

Idle(t) == pc[t] = "idle"
Goto(t, l) == pc' = [pc EXCEPT ![t] = l]
Return(t, r) ==
    /\ pc' = [pc EXCEPT ![t] = "idle"]
    /\ loc' = [loc EXCEPT ![t].ret = r]
\* the return of a call without results: its locals go out of scope
ReturnVoid(t) ==
    /\ pc' = [pc EXCEPT ![t] = "idle"]
    /\ loc' = [loc EXCEPT ![t] = Locals(loc[t].op, loc[t].key)]

-----------------------------------------------------------------------------
(* Set, lines 44-56, and push, lines 211-221 *)

\* lines 45-48: expires is computed from time.Now() before the lock is taken
SetCall(t, k, v, ttl) ==
    /\ Idle(t)
    /\ Goto(t, "SetWrite")
    /\ loc' = [loc EXCEPT ![t] = [Locals("Set", k) EXCEPT
                   !.value = v, !.expires = ExpiresOf(now, ttl), !.at = now]]
    /\ UNCHANGED <<now, data, items, lastKeys, muW, muR, stackMutex, cleanup,
                   live, okGets>>

\* lines 49-53: s.mu.Lock(); s.data[key] = &Item{...}
SetWrite_InPlace(t) ==
    /\ pc[t] = "SetWrite"
    /\ CanLock
    /\ muW' = t
    /\ IF loc[t].key \in DOMAIN data
         THEN /\ items' = [items EXCEPT ![data[loc[t].key]] =
                               NewItem(loc[t].value, loc[t].expires)]
              /\ data' = data
              /\ live' = MapPut(live, loc[t].key, data[loc[t].key])
         ELSE /\ items' = Append(items, NewItem(loc[t].value, loc[t].expires))
              /\ data' = MapPut(data, loc[t].key, Len(items) + 1)
              /\ live' = MapPut(live, loc[t].key, Len(items) + 1)
    /\ okGets' = MapPut(okGets, loc[t].key, 0)
    /\ Goto(t, "SetUnlock")
    /\ UNCHANGED <<now, lastKeys, muR, stackMutex, loc, cleanup, harness>>
SetWrite(t) ==
    /\ pc[t] = "SetWrite"
    /\ CanLock
    /\ muW' = t
    /\ items' = Append(items, NewItem(loc[t].value, loc[t].expires))
    /\ data' = MapPut(data, loc[t].key, Len(items) + 1)
    /\ live' = MapPut(live, loc[t].key, Len(items) + 1)
    /\ okGets' = MapPut(okGets, loc[t].key, 0)
    /\ Goto(t, "SetUnlock")
    /\ UNCHANGED <<now, lastKeys, muR, stackMutex, loc, cleanup, harness>>

\* line 54: s.mu.Unlock(); line 55 then calls push
SetUnlock_Held(t) ==
    /\ pc[t] = "SetUnlock"
    /\ Goto(t, "PushAppend")
    /\ UNCHANGED <<now, data, items, lastKeys, muW, muR, stackMutex, loc, cleanup,
                   live, okGets, harness>>
SetUnlock(t) ==
    /\ pc[t] = "SetUnlock"
    /\ muW' = Free
    /\ Goto(t, "PushAppend")
    /\ UNCHANGED <<now, data, items, lastKeys, muR, stackMutex, loc, cleanup,
                   live, okGets, harness>>

\* lines 213-215: s.stackMutex.Lock(); append
PushAppend(t) ==
    /\ pc[t] = "PushAppend"
    /\ stackMutex = Free
    /\ stackMutex' = t
    /\ lastKeys' = Append(lastKeys, loc[t].key)
    /\ Goto(t, "PushTrim")
    /\ UNCHANGED <<now, data, items, muW, muR, loc, cleanup, live, okGets,
                   harness>>

\* lines 216-218: drop the oldest key beyond the capacity
Trim_None(s) == s
Trim_DropNewest(s) == IF Len(s) > StackCap THEN SubSeq(s, 1, Len(s) - 1) ELSE s
Trim(s) == IF Len(s) > StackCap THEN Tail(s) ELSE s

\* lines 216-220: trim; s.stackMutex.Unlock(); Set returns
PushTrim(t) ==
    /\ pc[t] = "PushTrim"
    /\ lastKeys' = Trim(lastKeys)
    /\ stackMutex' = Free
    /\ ReturnVoid(t)
    /\ UNCHANGED <<now, data, items, muW, muR, cleanup, live, okGets, harness>>

-----------------------------------------------------------------------------
(* Get, lines 88-111 *)

\* lines 90-91: s.mu.RLock(); item, ok := s.data[key]
GetRead(t, k) ==
    /\ Idle(t)
    /\ CanRLock
    /\ muR' = muR \cup {t}
    /\ loc' = [loc EXCEPT ![t] = [Locals("Get", k) EXCEPT
                   !.item = IF k \in DOMAIN data THEN data[k] ELSE NoItem,
                   !.seen = IF k \in DOMAIN live THEN live[k] ELSE NoItem,
                   !.at = now]]
    /\ Goto(t, "GetRUnlock")
    /\ UNCHANGED <<now, data, items, lastKeys, muW, stackMutex, cleanup,
                   live, okGets>>

\* lines 92-96: s.mu.RUnlock(); if !ok { return "", false }
GetRUnlock_Held(t) ==
    /\ pc[t] = "GetRUnlock"
    /\ IF loc[t].item = NoItem
         THEN Return(t, [found |-> FALSE, value |-> NoValue])
         ELSE Goto(t, "GetCheck") /\ loc' = loc
    /\ UNCHANGED <<now, data, items, lastKeys, muW, muR, stackMutex, cleanup,
                   live, okGets, harness>>
GetRUnlock(t) ==
    /\ pc[t] = "GetRUnlock"
    /\ muR' = muR \ {t}
    /\ IF loc[t].item = NoItem
         THEN Return(t, [found |-> FALSE, value |-> NoValue])
         ELSE Goto(t, "GetCheck") /\ loc' = loc
    /\ UNCHANGED <<now, data, items, lastKeys, muW, stackMutex, cleanup,
                   live, okGets, harness>>

\* line 99: !item.ExpiresAt.IsZero() && time.Now().After(item.ExpiresAt)
GetCheck(t) ==
    /\ pc[t] = "GetCheck"
    /\ loc' = [loc EXCEPT ![t].at = now]
    /\ IF Expired(items[loc[t].item], now)
         THEN Goto(t, "GetDelete")
         ELSE Goto(t, "GetIncr")
    /\ UNCHANGED <<now, data, items, lastKeys, muW, muR, stackMutex, cleanup,
                   live, okGets, harness>>

\* line 101: curValue, ok := s.data[key]; ok && curValue == item
StillMapped_AnyItem(t) == loc[t].key \in DOMAIN data
StillMapped(t) == loc[t].key \in DOMAIN data /\ data[loc[t].key] = loc[t].item

\* lines 100-103: s.mu.Lock(); delete only if the key still maps to the item read
GetDelete(t) ==
    /\ pc[t] = "GetDelete"
    /\ CanLock
    /\ muW' = t
    /\ data' = IF StillMapped(t) THEN MapDel(data, loc[t].key) ELSE data
    /\ Goto(t, "GetUnlock")
    /\ UNCHANGED <<now, items, lastKeys, muR, stackMutex, loc, cleanup, live,
                   okGets, harness>>

\* lines 105-106: s.mu.Unlock(); return "", false
GetUnlock(t) ==
    /\ pc[t] = "GetUnlock"
    /\ muW' = Free
    /\ Return(t, [found |-> FALSE, value |-> NoValue])
    /\ UNCHANGED <<now, data, items, lastKeys, muR, stackMutex, cleanup, live,
                   okGets, harness>>

\* line 108: item.Views.Add(1), an atomic read-modify-write of the shared Item
ViewsAdd_OnCopy(t) == items
ViewsAdd_Racy(t) ==
    IF \E u \in Callers \ {t} : pc[u] = "GetIncr" /\ loc[u].item = loc[t].item
      THEN items
      ELSE [items EXCEPT ![loc[t].item].Views = @ + 1]
ViewsAdd(t) == [items EXCEPT ![loc[t].item].Views = @ + 1]

\* lines 108-110: count the view and return item.Value, true
GetIncr(t) ==
    /\ pc[t] = "GetIncr"
    /\ items' = ViewsAdd(t)
    /\ okGets' = [okGets EXCEPT ![loc[t].key] = @ + 1]
    /\ Return(t, [found |-> TRUE, value |-> items[loc[t].item].Value])
    /\ UNCHANGED <<now, data, lastKeys, muW, muR, stackMutex, cleanup, live,
                   harness>>

-----------------------------------------------------------------------------
(* GetViews, lines 114-123 *)

\* lines 115-116: s.mu.RLock(); item, ok := s.data[key]
GetViewsRead(t, k) ==
    /\ Idle(t)
    /\ CanRLock
    /\ muR' = muR \cup {t}
    /\ loc' = [loc EXCEPT ![t] = [Locals("GetViews", k) EXCEPT
                   !.item = IF k \in DOMAIN data THEN data[k] ELSE NoItem,
                   !.at = now]]
    /\ Goto(t, "GetViewsRUnlock")
    /\ UNCHANGED <<now, data, items, lastKeys, muW, stackMutex, cleanup,
                   live, okGets>>

\* lines 117-121: s.mu.RUnlock(); if !ok { return 0 }
GetViewsRUnlock(t) ==
    /\ pc[t] = "GetViewsRUnlock"
    /\ muR' = muR \ {t}
    /\ IF loc[t].item = NoItem
         THEN Return(t, [views |-> 0])
         ELSE Goto(t, "GetViewsLoad") /\ loc' = loc
    /\ UNCHANGED <<now, data, items, lastKeys, muW, stackMutex, cleanup,
                   live, okGets, harness>>

\* line 122: return item.Views.Load()
GetViewsLoad(t) ==
    /\ pc[t] = "GetViewsLoad"
    /\ Return(t, [views |-> items[loc[t].item].Views])
    /\ UNCHANGED <<now, data, items, lastKeys, muW, muR, stackMutex, cleanup,
                   live, okGets, harness>>

-----------------------------------------------------------------------------
(* Delete, lines 126-131 *)

\* lines 127-130: s.mu.Lock(); delete(s.data, key)
DeleteLock(t, k) ==
    /\ Idle(t)
    /\ CanLock
    /\ muW' = t
    /\ data' = MapDel(data, k)
    /\ live' = MapDel(live, k)
    /\ loc' = [loc EXCEPT ![t] = Locals("Delete", k)]
    /\ Goto(t, "DeleteUnlock")
    /\ UNCHANGED <<now, items, lastKeys, muR, stackMutex, cleanup, okGets>>

\* line 128: the deferred s.mu.Unlock()
DeleteUnlock(t) ==
    /\ pc[t] = "DeleteUnlock"
    /\ muW' = Free
    /\ ReturnVoid(t)
    /\ UNCHANGED <<now, data, items, lastKeys, muR, stackMutex, cleanup, live,
                   okGets, harness>>

-----------------------------------------------------------------------------
(* Size, lines 80-85 *)

\* lines 81-83: s.mu.RLock(); l := len(s.data)
SizeRead(t) ==
    /\ Idle(t)
    /\ CanRLock
    /\ muR' = muR \cup {t}
    /\ loc' = [loc EXCEPT ![t] = [Locals("Size", EmptyKey) EXCEPT
                   !.ret = [size |-> Cardinality(DOMAIN data)]]]
    /\ Goto(t, "SizeRUnlock")
    /\ UNCHANGED <<now, data, items, lastKeys, muW, stackMutex, cleanup,
                   live, okGets>>

\* lines 82, 84: the deferred s.mu.RUnlock(); return l
SizeRUnlock(t) ==
    /\ pc[t] = "SizeRUnlock"
    /\ muR' = muR \ {t}
    /\ Return(t, loc[t].ret)
    /\ UNCHANGED <<now, data, items, lastKeys, muW, stackMutex, cleanup,
                   live, okGets, harness>>

-----------------------------------------------------------------------------
(* FullList, lines 144-160, and ItemDTO, lines 134-138 *)

\* lines 149-153: a row of the result copies the fields of the item p points to,
\* Views as the number val.Views.Load() reads
ItemDTO_Shared(p) == [ptr |-> p]
ItemDTO(p) == [Value |-> items[p].Value, ExpiresAt |-> items[p].ExpiresAt,
               Views |-> items[p].Views]

\* lines 145-146: s.mu.RLock(); newData := make(map[string]ItemDTO, len(s.data))
FullListLock(t) ==
    /\ Idle(t)
    /\ CanRLock
    /\ muR' = muR \cup {t}
    /\ loc' = [loc EXCEPT ![t] = [Locals("FullList", EmptyKey) EXCEPT
                   !.ret = [list |-> EmptyMap]]]
    /\ Goto(t, "FullListRange")
    /\ UNCHANGED <<now, data, items, lastKeys, muW, stackMutex, cleanup,
                   live, okGets>>

\* lines 148-155: one iteration of the range loop (Go ranges a map in any order);
\* val.Views.Load() reads the counter as it is at that moment
FullListRange(t) ==
    /\ pc[t] = "FullListRange"
    /\ \E k \in DOMAIN data \ DOMAIN loc[t].ret.list :
         loc' = [loc EXCEPT ![t].ret.list = MapPut(@, k, ItemDTO(data[k]))]
    /\ UNCHANGED <<now, data, items, lastKeys, muW, muR, stackMutex, pc,
                   cleanup, live, okGets, harness>>

\* lines 157-159: the loop is over; s.mu.RUnlock(); return newData
FullListRUnlock(t) ==
    /\ pc[t] = "FullListRange"
    /\ DOMAIN data \subseteq DOMAIN loc[t].ret.list
    /\ muR' = muR \ {t}
    /\ Return(t, loc[t].ret)
    /\ UNCHANGED <<now, data, items, lastKeys, muW, stackMutex, cleanup,
                   live, okGets, harness>>

-----------------------------------------------------------------------------
(* RetrieveLastKey, lines 61-77 *)

Top_First(s) == s[1]
Top(s) == s[Len(s)]
Pop_Keep(s) == s
Pop(s) == SubSeq(s, 1, Len(s) - 1)

\* lines 62-69: s.stackMutex.Lock(); on an empty stack nothing else, otherwise
\* k := the last key, and the stack loses it
RetrieveLastKeyPop_SkipAbsent(t) ==
    /\ Idle(t)
    /\ stackMutex = Free
    /\ stackMutex' = t
    /\ IF Len(lastKeys) = 0
         THEN /\ loc' = [loc EXCEPT ![t] = Locals("RetrieveLastKey", EmptyKey)]
              /\ Goto(t, "RetrieveLastKeyEmpty")
              /\ lastKeys' = lastKeys
         ELSE IF Top(lastKeys) \notin DOMAIN data
         THEN /\ loc' = [loc EXCEPT ![t] = Locals("RetrieveLastKey", EmptyKey)]
              /\ Goto(t, "RetrieveLastKeyEmpty")
              /\ lastKeys' = Pop(lastKeys)
         ELSE /\ loc' = [loc EXCEPT ![t] = Locals("RetrieveLastKey", Top(lastKeys))]
              /\ Goto(t, "RetrieveLastKeyStackUnlock")
              /\ lastKeys' = Pop(lastKeys)
    /\ UNCHANGED <<now, data, items, muW, muR, cleanup, live, okGets>>
RetrieveLastKeyPop(t) ==
    /\ Idle(t)
    /\ stackMutex = Free
    /\ stackMutex' = t
    /\ IF Len(lastKeys) = 0
         THEN /\ loc' = [loc EXCEPT ![t] = Locals("RetrieveLastKey", EmptyKey)]
              /\ Goto(t, "RetrieveLastKeyEmpty")
              /\ lastKeys' = lastKeys
         ELSE /\ loc' = [loc EXCEPT ![t] = Locals("RetrieveLastKey", Top(lastKeys))]
              /\ Goto(t, "RetrieveLastKeyStackUnlock")
              /\ lastKeys' = Pop(lastKeys)
    /\ UNCHANGED <<now, data, items, muW, muR, cleanup, live, okGets>>

\* lines 64-65: s.stackMutex.Unlock(); return ""
RetrieveLastKeyEmpty(t) ==
    /\ pc[t] = "RetrieveLastKeyEmpty"
    /\ stackMutex' = Free
    /\ Return(t, [key |-> EmptyKey])
    /\ UNCHANGED <<now, data, items, lastKeys, muW, muR, cleanup, live, okGets,
                   harness>>

\* line 70: s.stackMutex.Unlock()
RetrieveLastKeyStackUnlock(t) ==
    /\ pc[t] = "RetrieveLastKeyStackUnlock"
    /\ stackMutex' = Free
    /\ Goto(t, "RetrieveLastKeyDelete")
    /\ UNCHANGED <<now, data, items, lastKeys, muW, muR, loc, cleanup, live,
                   okGets, harness>>

\* lines 72-73: s.mu.Lock(); delete(s.data, k)
RetrieveLastKeyDelete(t) ==
    /\ pc[t] = "RetrieveLastKeyDelete"
    /\ CanLock
    /\ muW' = t
    /\ data' = MapDel(data, loc[t].key)
    /\ live' = MapDel(live, loc[t].key)
    /\ Goto(t, "RetrieveLastKeyUnlock")
    /\ UNCHANGED <<now, items, lastKeys, muR, stackMutex, loc, cleanup, okGets,
                   harness>>

\* lines 74-76: s.mu.Unlock(); return k
RetrieveLastKeyUnlock(t) ==
    /\ pc[t] = "RetrieveLastKeyUnlock"
    /\ muW' = Free
    /\ Return(t, [key |-> loc[t].key])
    /\ UNCHANGED <<now, data, items, lastKeys, muR, stackMutex, cleanup, live,
                   okGets, harness>>

-----------------------------------------------------------------------------
(* Reset, lines 199-208 *)

\* line 201: s.lastKeys = make([]string, 0, 30)
ResetLastKeys_Kept == lastKeys
ResetLastKeys == <<>>

\* line 205: s.data = make(map[string]*Item)
ResetData == EmptyMap

\* lines 200-201: s.stackMutex.Lock(); a new, empty stack
ResetStack(t) ==
    /\ Idle(t)
    /\ stackMutex = Free
    /\ stackMutex' = t
    /\ lastKeys' = ResetLastKeys
    /\ loc' = [loc EXCEPT ![t] = Locals("Reset", EmptyKey)]
    /\ Goto(t, "ResetStackUnlock")
    /\ UNCHANGED <<now, data, items, muW, muR, cleanup, live, okGets>>

\* line 202: s.stackMutex.Unlock()
ResetStackUnlock(t) ==
    /\ pc[t] = "ResetStackUnlock"
    /\ stackMutex' = Free
    /\ Goto(t, "ResetTable")
    /\ UNCHANGED <<now, data, items, lastKeys, muW, muR, loc, cleanup, live,
                   okGets, harness>>

\* lines 204-205: s.mu.Lock(); a new, empty map
ResetTable(t) ==
    /\ pc[t] = "ResetTable"
    /\ CanLock
    /\ muW' = t
    /\ data' = ResetData
    /\ live' = [k \in DOMAIN data' |-> live[k]]
    /\ Goto(t, "ResetUnlock")
    /\ UNCHANGED <<now, items, lastKeys, muR, stackMutex, loc, cleanup, okGets,
                   harness>>

\* line 206: s.mu.Unlock()
ResetUnlock(t) ==
    /\ pc[t] = "ResetUnlock"
    /\ muW' = Free
    /\ ReturnVoid(t)
    /\ UNCHANGED <<now, data, items, lastKeys, muR, stackMutex, cleanup, live,
                   okGets, harness>>

-----------------------------------------------------------------------------
(* Cleanup, lines 164-195 *)

\* lines 165, 169-170: ctx is done; return, and the deferred cleanTicker.Stop()
CleanupStop_LeakTicker ==
    /\ pc[Sweeper] = "CleanupSelect"
    /\ ctxDone
    /\ Goto(Sweeper, "stopped")
    /\ UNCHANGED <<now, data, items, lastKeys, muW, muR, stackMutex, loc,
                   cleanup, live, okGets, harness>>
CleanupStop ==
    /\ pc[Sweeper] = "CleanupSelect"
    /\ ctxDone
    /\ tickerOn' = FALSE
    /\ Goto(Sweeper, "stopped")
    /\ UNCHANGED <<now, data, items, lastKeys, muW, muR, stackMutex, loc,
                   expiredKeys, cleanNow, ctxDone, live, okGets, harness>>

\* lines 171-174: the ticker fires; expiredKeys := []string{}; now := time.Now()
CleanupTick ==
    /\ pc[Sweeper] = "CleanupSelect"
    /\ tickerOn
    /\ expiredKeys' = {}
    /\ cleanNow' = now
    /\ Goto(Sweeper, "CleanupScan")
    /\ UNCHANGED <<now, data, items, lastKeys, muW, muR, stackMutex, loc,
                   ctxDone, tickerOn, live, okGets, harness>>

\* lines 175-180: s.mu.RLock(); collect the keys whose item has expired at now
CleanupScan ==
    /\ pc[Sweeper] = "CleanupScan"
    /\ CanRLock
    /\ muR' = muR \cup {Sweeper}
    /\ expiredKeys' = {k \in DOMAIN data : Expired(items[data[k]], cleanNow)}
    /\ Goto(Sweeper, "CleanupRUnlock")
    /\ UNCHANGED <<now, data, items, lastKeys, muW, stackMutex, loc, cleanNow,
                   ctxDone, tickerOn, live, okGets, harness>>

\* lines 182-186: s.mu.RUnlock(); nothing expired: continue
CleanupRUnlock ==
    /\ pc[Sweeper] = "CleanupRUnlock"
    /\ muR' = muR \ {Sweeper}
    /\ IF expiredKeys = {}
         THEN Goto(Sweeper, "CleanupSelect") /\ cleanNow' = 0
         ELSE Goto(Sweeper, "CleanupDelete") /\ cleanNow' = cleanNow
    /\ UNCHANGED <<now, data, items, lastKeys, muW, stackMutex, loc,
                   expiredKeys, ctxDone, tickerOn, live, okGets, harness>>

\* lines 188-191: s.mu.Lock(); delete every collected key
CleanupDelete ==
    /\ pc[Sweeper] = "CleanupDelete"
    /\ CanLock
    /\ muW' = Sweeper
    /\ data' = MapDelAll(data, expiredKeys)
    /\ Goto(Sweeper, "CleanupUnlock")
    /\ UNCHANGED <<now, items, lastKeys, muR, stackMutex, loc, cleanup, live,
                   okGets, harness>>

\* line 192: s.mu.Unlock(); the locals of the iteration go out of scope
CleanupUnlock ==
    /\ pc[Sweeper] = "CleanupUnlock"
    /\ muW' = Free
    /\ expiredKeys' = {}
    /\ cleanNow' = 0
    /\ Goto(Sweeper, "CleanupSelect")
    /\ UNCHANGED <<now, data, items, lastKeys, muR, stackMutex, loc, ctxDone,
                   tickerOn, live, okGets, harness>>

-----------------------------------------------------------------------------
(* The environment: time passes, the caller of Cleanup cancels its context *)

Tick ==
    /\ now < MaxTime
    /\ now' = now + 1
    /\ UNCHANGED <<data, items, lastKeys, muW, muR, stackMutex, pc, loc,
                   cleanup, live, okGets, harness>>

Cancel ==
    /\ ~ctxDone
    /\ ctxDone' = TRUE
    /\ UNCHANGED <<now, data, items, lastKeys, muW, muR, stackMutex, pc, loc,
                   expiredKeys, cleanNow, tickerOn, live, okGets, harness>>

-----------------------------------------------------------------------------
(* NewStore, lines 33-38, with the goroutines `callers` and, when `sweep`,  *)
(* a running Cleanup                                                        *)

NoCall == [op |-> "none", key |-> EmptyKey]
NoSnapshot == [data |-> EmptyMap, lastKeys |-> <<>>]

NewStore(callers, sweep) ==
    /\ now = 0
    /\ data = EmptyMap
    /\ items = <<>>
    /\ lastKeys = <<>>
    /\ muW = Free
    /\ muR = {}
    /\ stackMutex = Free
    /\ pc = [p \in callers \cup (IF sweep THEN {Sweeper} ELSE {}) |->
               IF p = Sweeper THEN "CleanupSelect" ELSE "idle"]
    /\ loc = [p \in callers |-> IdleLocals]
    /\ expiredKeys = {}
    /\ cleanNow = 0
    /\ ctxDone = FALSE
    /\ tickerOn = TRUE
    /\ live = EmptyMap
    /\ okGets = EmptyMap
    /\ prev = [p \in callers |-> NoCall]
    /\ pre = NoSnapshot
    /\ written = <<>>

\* A caller starts one of its remaining calls
Budget(t) == IF t \in DOMAIN todo THEN t ELSE AnyCaller
Spend(t) ==
    /\ todo[Budget(t)] > 0
    /\ todo' = [todo EXCEPT ![Budget(t)] = @ - 1]
\* Every Set passes a value of its own: the number of calls its budget still allows
Ticket(t) == todo[Budget(t)]

-----------------------------------------------------------------------------
(* Spec: NThreads callers make MaxCalls calls in all of Set, Get, Delete,   *)
(* RetrieveLastKey and Reset with any arguments, beside a running Cleanup,  *)
(* while time passes                                                        *)

Call(t) ==
    /\ Spend(t)
    /\ UNCHANGED <<prev, pre, written>>
    /\ \/ \E k \in Keys, ttl \in TTLs : SetCall(t, k, Ticket(t), ttl)
       \/ \E k \in Keys : GetRead(t, k)
       \/ \E k \in Keys : DeleteLock(t, k)
       \/ RetrieveLastKeyPop(t)
       \/ ResetStack(t)

Step(t) ==
    \/ SetWrite(t) \/ SetUnlock(t) \/ PushAppend(t) \/ PushTrim(t)
    \/ GetRUnlock(t) \/ GetCheck(t) \/ GetDelete(t) \/ GetUnlock(t) \/ GetIncr(t)
    \/ DeleteUnlock(t)
    \/ RetrieveLastKeyEmpty(t) \/ RetrieveLastKeyStackUnlock(t)
    \/ RetrieveLastKeyDelete(t) \/ RetrieveLastKeyUnlock(t)
    \/ ResetStackUnlock(t) \/ ResetTable(t) \/ ResetUnlock(t)

SweepStep ==
    \/ CleanupTick
    \/ CleanupScan
    \/ CleanupRUnlock
    \/ CleanupDelete
    \/ CleanupUnlock

Init ==
    /\ NewStore(Threads, TRUE)
    /\ todo = [b \in {AnyCaller} |-> MaxCalls]

Next ==
    \/ \E t \in Threads : Call(t)
    \/ \E t \in Threads : Step(t)
    \/ SweepStep
    \/ Tick

Spec == Init /\ [][Next]_vars

-----------------------------------------------------------------------------
(* Claims checked under Spec *)

GetReturned(t) == pc[t] = "idle" /\ loc[t].op = "Get"

\* C1: a Get that returns found=true read an entry whose expiresAt is zero or
\* not strictly before the time at which that Get evaluated the expiry
C1_NoExpiredRead ==
    \A t \in Callers :
        GetReturned(t) /\ loc[t].ret.found =>
            \/ items[loc[t].item].ExpiresAt = 0
            \/ ~(items[loc[t].item].ExpiresAt < loc[t].at)

\* a Get found an entry in the table whose expiresAt had passed, and answered not-found
C1_Witness ==
    \E t \in Callers :
        /\ GetReturned(t)
        /\ loc[t].item # NoItem
        /\ items[loc[t].item].ExpiresAt # 0
        /\ items[loc[t].item].ExpiresAt < loc[t].at
        /\ ~loc[t].ret.found

\* C2: for an entry written by Set with ttl = d > 0 that no caller had overwritten
\* or removed when Get read the table, Get returns found=true when it runs before
\* d has elapsed since the Set (before expiresAt), whatever the sweeper did.
\* (This is the half of the claim the sweeper breaks; at exactly expiresAt the
\* code still answers found=true, line 99 comparing with After.)
C2_FoundBeforeExpiry ==
    \A t \in Callers :
        /\ GetReturned(t)
        /\ loc[t].seen # NoItem
        /\ items[loc[t].seen].ExpiresAt # 0
        /\ loc[t].at < items[loc[t].seen].ExpiresAt
        => loc[t].ret.found

\* C3: every entry a step of the sweeper removes from the table is expired at
\* the moment of removal
C3_SweeperSparesUnexpired ==
    [][pc[Sweeper] = "CleanupDelete" /\ pc'[Sweeper] = "CleanupUnlock" =>
         \A k \in DOMAIN data \ DOMAIN data' :
             /\ items[data[k]].ExpiresAt # 0
             /\ items[data[k]].ExpiresAt < now]_vars

\* C4: an entry written by Set with ttl <= 0 stays in the table as long as no
\* caller overwrites or removes it, and a Get that reads the table while it is
\* such an entry returns its value and found=true
C4_NoExpiryDefault ==
    /\ \A k \in DOMAIN live :
           items[live[k]].ExpiresAt = 0 => k \in DOMAIN data /\ data[k] = live[k]
    /\ \A t \in Callers :
           GetReturned(t) /\ loc[t].seen # NoItem /\ items[loc[t].seen].ExpiresAt = 0 =>
               loc[t].ret = [found |-> TRUE, value |-> items[loc[t].seen].Value]

-----------------------------------------------------------------------------
(* SpecSeq: one caller makes MaxSeqCalls calls, one after the other, of any *)
(* operation with any arguments; no time passes (no entry expires) and no   *)
(* Cleanup runs.  The harness keeps the call before the current one and the *)
(* table and stack at the start of the current one.                         *)

SeqCall(t) ==
    /\ Spend(t)
    /\ prev' = [prev EXCEPT ![t] = [op |-> loc[t].op, key |-> loc[t].key]]
    /\ pre' = [data |-> data, lastKeys |-> lastKeys]
    /\ UNCHANGED written
    /\ \/ \E k \in Keys, ttl \in TTLs : SetCall(t, k, Ticket(t), ttl)
       \/ \E k \in Keys : GetRead(t, k)
       \/ \E k \in Keys : GetViewsRead(t, k)
       \/ \E k \in Keys : DeleteLock(t, k)
       \/ SizeRead(t)
       \/ FullListLock(t)
       \/ RetrieveLastKeyPop(t)
       \/ ResetStack(t)

SeqStep(t) ==
    \/ SetWrite(t) \/ SetUnlock(t) \/ PushAppend(t) \/ PushTrim(t)
    \/ GetRUnlock(t) \/ GetCheck(t) \/ GetIncr(t)
    \/ DeleteUnlock(t)
    \/ RetrieveLastKeyEmpty(t) \/ RetrieveLastKeyStackUnlock(t)
    \/ RetrieveLastKeyDelete(t) \/ RetrieveLastKeyUnlock(t)
    \/ ResetStackUnlock(t) \/ ResetTable(t) \/ ResetUnlock(t)
    \/ GetViewsRUnlock(t) \/ GetViewsLoad(t)
    \/ SizeRUnlock(t)
    \/ FullListRange(t) \/ FullListRUnlock(t)

InitSeq ==
    /\ NewStore({1}, FALSE)
    /\ todo = [t \in {1} |-> MaxSeqCalls]

NextSeq ==
    \/ SeqCall(1)
    \/ SeqStep(1)

SpecSeq == InitSeq /\ [][NextSeq]_vars

Returned(t, o) == pc[t] = "idle" /\ loc[t].op = o

\* C5: GetViews on a key that is in the table returns the number of Gets that
\* returned found=true for the key since the last Set of the key, and 0 when the
\* call before it was a Set of the key
C5_ViewsCountGets ==
    \A t \in Callers :
        Returned(t, "GetViews") /\ loc[t].key \in DOMAIN data =>
            /\ loc[t].ret.views = okGets[loc[t].key]
            /\ prev[t] = [op |-> "Set", key |-> loc[t].key] => loc[t].ret.views = 0

\* GetViews returned 2 after two successful Gets
C5_Witness ==
    \E t \in Callers :
        /\ Returned(t, "GetViews")
        /\ loc[t].key \in DOMAIN data
        /\ okGets[loc[t].key] = 2
        /\ loc[t].ret.views = 2

\* C9: RetrieveLastKey on a non-empty stack returns the newest key, leaves the
\* stack without it and the table without that key, everything else as it was;
\* on an empty stack it returns "" and leaves stack and table as they were
C9_RetrieveLastKey ==
    \A t \in Callers :
        Returned(t, "RetrieveLastKey") =>
            IF pre.lastKeys = <<>>
              THEN /\ loc[t].ret.key = EmptyKey
                   /\ lastKeys = <<>>
                   /\ data = pre.data
              ELSE /\ loc[t].ret.key = pre.lastKeys[Len(pre.lastKeys)]
                   /\ lastKeys = SubSeq(pre.lastKeys, 1, Len(pre.lastKeys) - 1)
                   /\ DOMAIN data = DOMAIN pre.data \ {loc[t].ret.key}
                   /\ \A k \in DOMAIN data : data[k] = pre.data[k]

\* RetrieveLastKey returned from a stack of two different keys and a table of two entries
C9_Witness ==
    \E t \in Callers :
        /\ Returned(t, "RetrieveLastKey")
        /\ Len(pre.lastKeys) = 2
        /\ pre.lastKeys[1] # pre.lastKeys[2]
        /\ Cardinality(DOMAIN pre.data) = 2
        /\ loc[t].ret.key = pre.lastKeys[2]

\* C10: when Reset has returned the table and the stack are empty, and a Size,
\* FullList or RetrieveLastKey called next returns 0, an empty map or ""
C10_ResetCompleteness ==
    \A t \in Callers :
        /\ Returned(t, "Reset") => DOMAIN data = {} /\ lastKeys = <<>>
        /\ pc[t] = "idle" /\ prev[t].op = "Reset" =>
               /\ loc[t].op = "Size" => loc[t].ret.size = 0
               /\ loc[t].op = "FullList" => DOMAIN loc[t].ret.list = {}
               /\ loc[t].op = "RetrieveLastKey" => loc[t].ret.key = EmptyKey

\* Reset returned, called on a store with two entries and two keys on the stack
C10_Witness ==
    \E t \in Callers :
        /\ Returned(t, "Reset")
        /\ Cardinality(DOMAIN pre.data) = 2
        /\ Len(pre.lastKeys) = 2

-----------------------------------------------------------------------------
(* SpecViews: the caller Main sets a key without expiry or with a ttl that  *)
(* does not elapse (no time passes); when its Set has returned, NThreads    *)
(* workers call Get on that key MaxGets times each, concurrently; when all  *)
(* of them have returned, Main calls GetViews on the key.                   *)

Main == NThreads + 1
SetReturned == pc[Main] = "idle" /\ loc[Main].op = "Set"
WorkersReturned == \A w \in Threads : todo[w] = 0 /\ pc[w] = "idle"

ViewsCall(t) ==
    /\ Spend(t)
    /\ UNCHANGED <<prev, pre, written>>
    /\ \/ /\ t = Main
          /\ loc[Main].op = "none"
          /\ \E k \in Keys, ttl \in TTLs : SetCall(t, k, Ticket(t), ttl)
       \/ /\ t \in Threads
          /\ SetReturned
          /\ GetRead(t, loc[Main].key)
       \/ /\ t = Main
          /\ SetReturned
          /\ WorkersReturned
          /\ GetViewsRead(t, loc[Main].key)

ViewsStep(t) ==
    \/ SetWrite(t) \/ SetUnlock(t) \/ PushAppend(t) \/ PushTrim(t)
    \/ GetRUnlock(t) \/ GetCheck(t) \/ GetIncr(t)
    \/ GetViewsRUnlock(t) \/ GetViewsLoad(t)

InitViews ==
    /\ NewStore(Threads \cup {Main}, FALSE)
    /\ todo = [t \in Threads \cup {Main} |-> IF t = Main THEN 2 ELSE MaxGets]

NextViews ==
    \/ \E t \in Threads \cup {Main} : ViewsCall(t)
    \/ \E t \in Threads \cup {Main} : ViewsStep(t)

SpecViews == InitViews /\ [][NextViews]_vars

\* C6: after NThreads concurrent callers have each made MaxGets calls of Get on
\* one live key, GetViews of the key returns NThreads * MaxGets
C6_NoLostViews ==
    Returned(Main, "GetViews") => loc[Main].ret.views = NThreads * MaxGets

\* all workers have made all their Gets, and Main's GetViews has returned
C6_Witness ==
    /\ Returned(Main, "GetViews")
    /\ WorkersReturned
    /\ \A w \in Threads : loc[w].op = "Get" /\ loc[w].ret.found

-----------------------------------------------------------------------------
(* SpecStack: caller 1 first makes StackCap - 1 calls of Set; then NThreads *)
(* callers make MaxStackCalls calls in all of Set, RetrieveLastKey and      *)
(* Reset, concurrently                                                      *)

Prefilled == todo[1] = 0

StackCall(t) ==
    /\ UNCHANGED <<prev, pre, written>>
    /\ \/ /\ t = 1
          /\ ~Prefilled
          /\ todo' = [todo EXCEPT ![1] = @ - 1]
          /\ SetCall(t, EmptyKey, todo[1], 0)
       \/ /\ Prefilled
          /\ todo[AnyCaller] > 0
          /\ todo' = [todo EXCEPT ![AnyCaller] = @ - 1]
          /\ \/ \E k \in Keys : SetCall(t, k, todo[AnyCaller], 0)
             \/ RetrieveLastKeyPop(t)
             \/ ResetStack(t)

StackStep(t) ==
    \/ SetWrite(t) \/ SetUnlock(t) \/ PushAppend(t) \/ PushTrim(t)
    \/ RetrieveLastKeyEmpty(t) \/ RetrieveLastKeyStackUnlock(t)
    \/ RetrieveLastKeyDelete(t) \/ RetrieveLastKeyUnlock(t)
    \/ ResetStackUnlock(t) \/ ResetTable(t) \/ ResetUnlock(t)

InitStack ==
    /\ NewStore(Threads, FALSE)
    /\ todo = [b \in {AnyCaller, 1} |-> IF b = 1 THEN StackCap - 1 ELSE MaxStackCalls]

NextStack ==
    \/ \E t \in Threads : StackCall(t)
    \/ \E t \in Threads : StackStep(t)

SpecStack == InitStack /\ [][NextStack]_vars

\* C7: whenever the stack lock is not held, the recency stack holds at most 30 keys
C7_StackBound == stackMutex = Free => Len(lastKeys) <= StackCap

\* a 31st key has been appended under the stack lock
C7_Witness ==
    \E t \in Callers : pc[t] = "PushTrim" /\ Len(lastKeys) = StackCap + 1

-----------------------------------------------------------------------------
(* SpecRecency: one caller, starting from the empty store, makes            *)
(* StackCap + MaxExtra calls of Set, one after the other, each on a key not *)
(* set before: the first key is any of Keys, the next ones go up in steps   *)
(* of 1 or of 2                                                             *)

NextKeys ==
    IF written = <<>> THEN Keys
    ELSE IF Len(written) = 1 THEN {written[1] + 1, written[1] + 2}
    ELSE {written[Len(written)] + (written[2] - written[1])}

RecencyCall(t) ==
    /\ Spend(t)
    /\ UNCHANGED <<prev, pre>>
    /\ \E k \in NextKeys :
         /\ written' = Append(written, k)
         /\ SetCall(t, k, Ticket(t), 0)

RecencyStep(t) == SetWrite(t) \/ SetUnlock(t) \/ PushAppend(t) \/ PushTrim(t)

InitRecency ==
    /\ NewStore({1}, FALSE)
    /\ todo = [t \in {1} |-> StackCap + MaxExtra]

NextRecency == RecencyCall(1) \/ RecencyStep(1)

SpecRecency == InitRecency /\ [][NextRecency]_vars

LastN(s, n) == IF Len(s) <= n THEN s ELSE SubSeq(s, Len(s) - n + 1, Len(s))

\* C8: after a sequential run of Sets on distinct keys the recency stack holds
\* the 30 most recently set keys (all of them, up to 30), oldest first
C8_RecencyOrder ==
    \A t \in Callers : pc[t] = "idle" => lastKeys = LastN(written, StackCap)

\* more than 30 distinct keys have been set, the last Set has returned
C8_Witness ==
    \E t \in Callers : pc[t] = "idle" /\ Len(written) > StackCap

-----------------------------------------------------------------------------
(* SpecSweep: one caller makes MaxSweepCalls calls, one after the other, in *)
(* all of Set, Get and GetViews beside a running Cleanup, while time passes *)
(* and the context of Cleanup may be cancelled at any moment.               *)
(* SpecSweepFair adds the scheduling: every goroutine that can take a step  *)
(* eventually takes one (weak fairness), and a select with ctx.Done()       *)
(* ready, which Go resolves by a uniform random choice among its ready      *)
(* cases, does not choose the ticker forever (strong fairness of            *)
(* CleanupStop).                                                            *)

SweepCall(t) ==
    /\ Spend(t)
    /\ UNCHANGED <<prev, pre, written>>
    /\ \/ \E k \in Keys, ttl \in TTLs : SetCall(t, k, Ticket(t), ttl)
       \/ \E k \in Keys : GetRead(t, k)
       \/ \E k \in Keys : GetViewsRead(t, k)

SweepCallerStep(t) ==
    \/ SetWrite(t) \/ SetUnlock(t) \/ PushAppend(t) \/ PushTrim(t)
    \/ GetRUnlock(t) \/ GetCheck(t) \/ GetDelete(t) \/ GetUnlock(t) \/ GetIncr(t)
    \/ GetViewsRUnlock(t) \/ GetViewsLoad(t)

InitSweep ==
    /\ NewStore({1}, TRUE)
    /\ todo = [t \in {1} |-> MaxSweepCalls]

NextSweep ==
    \/ SweepCall(1)
    \/ SweepCallerStep(1)
    \/ SweepStep
    \/ CleanupStop
    \/ Cancel
    \/ Tick

SpecSweep == InitSweep /\ [][NextSweep]_vars

SpecSweepFair ==
    /\ SpecSweep
    /\ WF_vars(SweepCallerStep(1))
    /\ WF_vars(SweepStep)
    /\ SF_vars(CleanupStop)

Stopped == pc[Sweeper] = "stopped"
SweeperHoldsLock == muW = Sweeper \/ Sweeper \in muR

\* C11: once the context is cancelled Cleanup eventually returns; when it has
\* returned it stays returned, takes no lock and changes nothing of the table,
\* and the ticker is stopped
C11_SweeperStops ==
    /\ ctxDone ~> Stopped
    /\ [](Stopped => ~tickerOn /\ ~SweeperHoldsLock)
    /\ [][Stopped => pc'[Sweeper] = "stopped"]_vars

\* Cleanup has returned while the table holds an entry whose expiresAt has passed
C11_Witness ==
    /\ Stopped
    /\ ctxDone
    /\ \E k \in DOMAIN data :
           items[data[k]].ExpiresAt # 0 /\ items[data[k]].ExpiresAt < now

\* C13: GetViews returns 0 when the key is not in the table, and when the entry
\* it finds has a non-zero expiresAt strictly before the time of the call
C13_ViewsSentinel ==
    \A t \in Callers :
        Returned(t, "GetViews") =>
            /\ loc[t].item = NoItem => loc[t].ret.views = 0
            /\ /\ loc[t].item # NoItem
               /\ items[loc[t].item].ExpiresAt # 0
               /\ items[loc[t].item].ExpiresAt < loc[t].at
               => loc[t].ret.views = 0

-----------------------------------------------------------------------------
(* SpecList: beside a running Cleanup and while time passes, the caller     *)
(* Reader makes MaxReads calls in all of FullList and Get, and the other    *)
(* callers together make MaxListCalls calls in all of Set, Get, Delete,     *)
(* RetrieveLastKey and Reset                                                *)

Reader == CHOOSE t \in Threads : \A u \in Threads : t <= u

ListCall(t) ==
    /\ Spend(t)
    /\ UNCHANGED <<prev, pre, written>>
    /\ \/ t = Reader /\ FullListLock(t)
       \/ \E k \in Keys : GetRead(t, k)
       \/ t # Reader /\ \E k \in Keys, ttl \in TTLs : SetCall(t, k, Ticket(t), ttl)
       \/ t # Reader /\ \E k \in Keys : DeleteLock(t, k)
       \/ t # Reader /\ RetrieveLastKeyPop(t)
       \/ t # Reader /\ ResetStack(t)

ListStep(t) ==
    \/ Step(t)
    \/ FullListRange(t) \/ FullListRUnlock(t)

InitList ==
    /\ NewStore(Threads, TRUE)
    /\ todo = [b \in {Reader, AnyCaller} |-> IF b = Reader THEN MaxReads ELSE MaxListCalls]

NextList ==
    \/ \E t \in Threads : ListCall(t)
    \/ \E t \in Threads : ListStep(t)
    \/ SweepStep
    \/ Tick

SpecList == InitList /\ [][NextList]_vars

\* what the holder of a returned row reads in it
RowRead(r) ==
    IF "ptr" \in DOMAIN r
      THEN [Value |-> items[r.ptr].Value, ExpiresAt |-> items[r.ptr].ExpiresAt,
            Views |-> items[r.ptr].Views]
      ELSE r
Rows(t) == [k \in DOMAIN loc[t].ret.list |-> RowRead(loc[t].ret.list[k])]

\* C12: when FullList returns, its map has the keys of the table, and for each
\* the value and expiresAt of the key's entry and a view count the entry had
\* while the lock was held; from then on no step of any goroutine changes what
\* the caller reads in the map
C12_FullListIndependent ==
    [][\A t \in DOMAIN loc :
          /\ pc[t] = "FullListRange" /\ pc'[t] = "idle" =>
                 /\ DOMAIN Rows(t)' = DOMAIN data
                 /\ \A k \in DOMAIN data :
                        /\ Rows(t)'[k].Value = items[data[k]].Value
                        /\ Rows(t)'[k].ExpiresAt = items[data[k]].ExpiresAt
                        /\ Rows(t)'[k].Views <= items[data[k]].Views
          /\ Returned(t, "FullList") /\ Returned(t, "FullList")' =>
                 Rows(t)' = Rows(t)]_vars

\* FullList has returned a row of an entry that has since been viewed again
C12_Witness ==
    \E t \in Callers :
        /\ Returned(t, "FullList")
        /\ \E k \in DOMAIN loc[t].ret.list, p \in 1..Len(items) :
               /\ items[p].Value = loc[t].ret.list[k].Value
               /\ items[p].Views > loc[t].ret.list[k].Views

-----------------------------------------------------------------------------
(* SpecAll: NThreads callers make MaxAllCalls calls in all of the eight     *)
(* operations with any arguments, beside a running Cleanup, while time      *)
(* passes.  SpecAllFair adds the scheduling: the sweeper takes a step       *)
(* whenever it can for long enough, and a caller that can take a step       *)
(* again and again eventually takes it: sync.Mutex hands the lock to a      *)
(* starving waiter, and a pending sync.RWMutex.Lock() holds back new        *)
(* readers.                                                                 *)

AllCall(t) ==
    /\ Spend(t)
    /\ UNCHANGED <<prev, pre, written>>
    /\ \/ \E k \in Keys, ttl \in TTLs : SetCall(t, k, Ticket(t), ttl)
       \/ \E k \in Keys : GetRead(t, k)
       \/ \E k \in Keys : GetViewsRead(t, k)
       \/ \E k \in Keys : DeleteLock(t, k)
       \/ SizeRead(t)
       \/ FullListLock(t)
       \/ RetrieveLastKeyPop(t)
       \/ ResetStack(t)

AllStep(t) ==
    \/ Step(t)
    \/ GetViewsRUnlock(t) \/ GetViewsLoad(t)
    \/ SizeRUnlock(t)
    \/ FullListRange(t) \/ FullListRUnlock(t)

InitAll ==
    /\ NewStore(Threads, TRUE)
    /\ todo = [b \in {AnyCaller} |-> MaxAllCalls]

NextAll ==
    \/ \E t \in Threads : AllCall(t)
    \/ \E t \in Threads : AllStep(t)
    \/ SweepStep
    \/ Tick

SpecAll == InitAll /\ [][NextAll]_vars

SpecAllFair ==
    /\ SpecAll
    /\ \A t \in Threads : SF_vars(AllStep(t))
    /\ WF_vars(SweepStep)

HoldsMu(p) == muW = p \/ p \in muR
AtMuLock(p) ==
    pc[p] \in {"SetWrite", "GetDelete", "RetrieveLastKeyDelete", "ResetTable",
               "CleanupScan", "CleanupDelete"}
AtStackLock(p) == pc[p] = "PushAppend"
AtCall(p) == pc[p] \in {"idle", "CleanupSelect"}

\* C14: a goroutine that is about to acquire a lock does not hold it, a
\* goroutine between two calls holds no lock, and every call that has started
\* eventually returns
C14_NoDeadlock ==
    /\ [](\A p \in DOMAIN pc :
             /\ AtMuLock(p) => ~HoldsMu(p)
             /\ AtStackLock(p) => stackMutex # p
             /\ AtCall(p) => ~HoldsMu(p) /\ stackMutex # p)
    /\ \A t \in Threads : pc[t] # "idle" ~> pc[t] = "idle"

\* a Set waits for the table lock, which a reader holds, while another caller
\* holds the stack lock
C14_Witness ==
    \E t, u \in Callers :
        /\ pc[t] = "SetWrite"
        /\ muR # {}
        /\ stackMutex = u

-----------------------------------------------------------------------------
(* Claims on the two locks, checked under SpecAll *)

\* C15: no goroutine holds the table lock, for reading or for writing, and the
\* stack lock at the same time
C15_LocksApart ==
    \A p \in DOMAIN pc : ~(HoldsMu(p) /\ stackMutex = p)

\* a Reset holds the table lock, having released the stack lock, which a Set
\* that released the table lock now holds
C15_Witness ==
    \E t, u \in Callers :
        /\ pc[t] = "ResetUnlock"
        /\ muW = t
        /\ pc[u] = "PushTrim"
        /\ stackMutex = u

-----------------------------------------------------------------------------
(* SpecPop: the caller Main makes MaxPushes calls of Set, one after the     *)
(* other, on any keys; meanwhile each of NThreads other callers makes one   *)
(* call of RetrieveLastKey                                                   *)

PopCall(t) ==
    /\ Spend(t)
    /\ UNCHANGED <<prev, pre>>
    /\ \/ /\ t = Main
          /\ \E k \in Keys :
                /\ written' = Append(written, k)
                /\ SetCall(t, k, Ticket(t), 0)
       \/ /\ t \in Threads
          /\ written' = written
          /\ RetrieveLastKeyPop(t)

PopStep(t) ==
    \/ SetWrite(t) \/ SetUnlock(t) \/ PushAppend(t) \/ PushTrim(t)
    \/ RetrieveLastKeyEmpty(t) \/ RetrieveLastKeyStackUnlock(t)
    \/ RetrieveLastKeyDelete(t) \/ RetrieveLastKeyUnlock(t)

InitPop ==
    /\ NewStore(Threads \cup {Main}, FALSE)
    /\ todo = [t \in Threads \cup {Main} |-> IF t = Main THEN MaxPushes ELSE 1]

NextPop ==
    \/ \E t \in Threads \cup {Main} : PopCall(t)
    \/ \E t \in Threads \cup {Main} : PopStep(t)

SpecPop == InitPop /\ [][NextPop]_vars

Count(k, s) == Cardinality({i \in 1..Len(s) : s[i] = k})
ReturnedKey(k) ==
    {t \in Threads : Returned(t, "RetrieveLastKey") /\ loc[t].ret.key = k}
AllReturned == \A t \in Threads \cup {Main} : pc[t] = "idle" /\ todo[t] = 0

\* C16: for every key other than "", no more calls of RetrieveLastKey have
\* returned it than Sets have pushed it, and when every call has returned, the
\* calls that returned it and the slots of the stack that still hold it are
\* together as many as the Sets that pushed it
C16_DistinctSlots ==
    \A k \in Keys \ {EmptyKey} :
        /\ Cardinality(ReturnedKey(k)) <= Count(k, written)
        /\ AllReturned =>
               Cardinality(ReturnedKey(k)) + Count(k, lastKeys) = Count(k, written)

\* two concurrent calls have returned the same key, popped from two slots, and
\* a third slot of that key is still on the stack
C16_Witness ==
    /\ AllReturned
    /\ \E k \in Keys \ {EmptyKey} :
           /\ Cardinality(ReturnedKey(k)) >= 2
           /\ Count(k, lastKeys) >= 1

-----------------------------------------------------------------------------
(* Claims on the removals, checked under SpecList *)

\* C17: the step of Get that follows its finding the entry expired removes
\* from the table nothing but the very entry Get read, under the key it read
\* it, and changes nothing else; when the key maps to another entry by then,
\* the table stays as it is; either way the Get returns not-found
C17_GuardedLazyDelete ==
    [][\A t \in DOMAIN loc :
          /\ pc[t] = "GetDelete" /\ pc'[t] = "GetUnlock" =>
                 /\ DOMAIN data' \subseteq DOMAIN data
                 /\ \A k \in DOMAIN data' : data'[k] = data[k]
                 /\ \A k \in DOMAIN data \ DOMAIN data' :
                        k = loc[t].key /\ data[k] = loc[t].item
                 /\ loc[t].key \in DOMAIN data /\ data[loc[t].key] # loc[t].item =>
                        data' = data
          /\ pc[t] = "GetUnlock" /\ pc'[t] = "idle" => ~loc'[t].ret.found]_vars

\* a Get has found its entry expired and taken the table lock after a Set
\* replaced the entry, and the replacement is in the table
C17_Witness ==
    \E t \in Callers :
        /\ pc[t] = "GetUnlock"
        /\ loc[t].key \in DOMAIN data
        /\ data[loc[t].key] # loc[t].item
        /\ data[loc[t].key] > loc[t].item

-----------------------------------------------------------------------------
(* Claims on the entries, checked under SpecList (every Set there passes a  *)
(* value of its own)                                                        *)

SamePair(it, value, expires) == it.Value = value /\ it.ExpiresAt = expires

\* C18: the table write of a Set puts a new entry with the value and the
\* expiresAt of that Set under the key, no step changes the value or the
\* expiresAt of an entry or lowers its views; so a Get that returns found=true
\* returns the value of an entry whose own expiresAt had not passed when the
\* Get looked, and every row FullList returns has the value and the expiresAt
\* of one entry
C18_NoTornEntry ==
    /\ [][/\ Len(items') >= Len(items)
          /\ \A p \in 1..Len(items) :
                 /\ SamePair(items'[p], items[p].Value, items[p].ExpiresAt)
                 /\ items'[p].Views >= items[p].Views
          /\ \A t \in DOMAIN loc :
                 pc[t] = "SetWrite" /\ pc'[t] = "SetUnlock" =>
                     /\ Len(items') = Len(items) + 1
                     /\ data'[loc[t].key] = Len(items')
                     /\ SamePair(items'[Len(items')], loc[t].value, loc[t].expires)]_vars
    /\ [](\A t \in DOMAIN loc :
             /\ GetReturned(t) /\ loc[t].ret.found =>
                    \E p \in 1..Len(items) :
                        /\ items[p].Value = loc[t].ret.value
                        /\ items[p].ExpiresAt = 0 \/ ~(items[p].ExpiresAt < loc[t].at)
             /\ Returned(t, "FullList") =>
                    \A k \in DOMAIN loc[t].ret.list :
                        \E p \in 1..Len(items) :
                            SamePair(items[p], loc[t].ret.list[k].Value,
                                     loc[t].ret.list[k].ExpiresAt))

\* a Get has returned the value of an entry that a Set of the same key, still
\* running, has replaced by one with another expiresAt
C18_Witness ==
    \E t \in Callers :
        /\ GetReturned(t) /\ loc[t].ret.found
        /\ loc[t].key \in DOMAIN data
        /\ data[loc[t].key] # loc[t].item
        /\ items[data[loc[t].key]].ExpiresAt # items[loc[t].item].ExpiresAt
        /\ items[loc[t].item].Views = 1
        /\ \E u \in Callers : loc[u].op = "Set" /\ pc[u] # "idle" /\ loc[u].key = loc[t].key

-----------------------------------------------------------------------------
(* SpecRetrieve: NThreads callers together make MaxRetrieveCalls calls in   *)
(* all of Set, Delete and RetrieveLastKey, concurrently; RetrieveLastKey is *)
(* called by the caller Reader only, and the harness keeps the table and    *)
(* the stack as they are when that call takes the stack lock                *)

RetrieveCall(t) ==
    /\ Spend(t)
    /\ UNCHANGED <<prev, written>>
    /\ \/ /\ pre' = pre
          /\ \/ \E k \in Keys : SetCall(t, k, Ticket(t), 0)
             \/ \E k \in Keys : DeleteLock(t, k)
       \/ /\ t = Reader
          /\ pre' = [data |-> data, lastKeys |-> lastKeys]
          /\ RetrieveLastKeyPop(t)

RetrieveStep(t) ==
    \/ SetWrite(t) \/ SetUnlock(t) \/ PushAppend(t) \/ PushTrim(t)
    \/ DeleteUnlock(t)
    \/ RetrieveLastKeyEmpty(t) \/ RetrieveLastKeyStackUnlock(t)
    \/ RetrieveLastKeyDelete(t) \/ RetrieveLastKeyUnlock(t)

InitRetrieve ==
    /\ NewStore(Threads, FALSE)
    /\ todo = [b \in {AnyCaller} |-> MaxRetrieveCalls]

NextRetrieve ==
    \/ \E t \in Threads : RetrieveCall(t)
    \/ \E t \in Threads : RetrieveStep(t)

SpecRetrieve == InitRetrieve /\ [][NextRetrieve]_vars

\* C19: the entry that the table step of RetrieveLastKey removes was in the
\* table, under the same key, when the call popped the key from the stack: it
\* is not the entry of a Set that wrote the table after the pop
C19_SparesLaterSet ==
    [][pc[Reader] = "RetrieveLastKeyDelete" /\ pc'[Reader] = "RetrieveLastKeyUnlock" =>
          \A k \in DOMAIN data \ DOMAIN data' :
              k \in DOMAIN pre.data /\ pre.data[k] = data[k]]_vars

\* C20: RetrieveLastKey called on a non-empty stack returns the key that was
\* newest on it, whether or not the table holds the key, and when the table
\* does not hold the key, its table step leaves the table as it is
C20_ReturnsPoppedKey ==
    /\ [](Returned(Reader, "RetrieveLastKey") /\ pre.lastKeys # <<>> =>
             loc[Reader].ret.key = pre.lastKeys[Len(pre.lastKeys)])
    /\ [][/\ pc[Reader] = "RetrieveLastKeyDelete"
          /\ pc'[Reader] = "RetrieveLastKeyUnlock"
          /\ loc[Reader].key \notin DOMAIN data
          => data' = data]_vars

\* RetrieveLastKey has returned a key other than "" that was on the stack and
\* not in the table when the call popped it
C20_Witness ==
    /\ Returned(Reader, "RetrieveLastKey")
    /\ pre.lastKeys # <<>>
    /\ loc[Reader].ret.key # EmptyKey
    /\ loc[Reader].ret.key \notin DOMAIN pre.data
    /\ loc[Reader].ret.key = pre.lastKeys[Len(pre.lastKeys)]

=============================================================================
